---- MODULE Spec2Model ----
(***************************************************************************)
(* Stage composition, aliasing, dispatch and structural serialization of   *)
(* the normalizer and pre-tokenizer pipelines of tokenizers-ruby           *)
(* (ext/tokenizers/src/normalizers.rs, ext/tokenizers/src/pre_tokenizers.rs)*)
(*                                                                         *)
(* A cell is one Arc<RwLock<Rb..Wrapper>> allocation; a pipeline is the    *)
(* Rb..TypeWrapper enum (Single(cell) or Sequence(Vec<cell>)); a handle is *)
(* one RbNormalizer / RbPreTokenizer object.  Both families share the      *)
(* design, so one model carries a family tag.                              *)
(***************************************************************************)
EXTENDS Integers, Sequences, FiniteSets, TLC

VARIABLES
    cells,    \* cells[c]: the stage held by allocation c (the RwLock's data)
    rw,       \* rw[c]: state of the RwLock of cell c: [readers, writer]
    pipes,    \* pipes[h]: the pipeline value of handle h
    th,       \* th[t]: the call frame of thread t
    failing   \* the stages whose backend operation returns Err

vars == <<cells, rw, pipes, th, failing>>

----------------------------------------------------------------------------
(* Bounds of the model *)

NumThreads == 2
MaxCells == 2
MaxPipes == 3
MaxArgs == 2
ComposeMaxPipes == 4
ComposeMaxArgs == 3
CodecMaxCells == 3
CodecMaxPipes == 4
LoadMaxCells == 3
LoadMaxPipes == 3

Threads == 1..NumThreads

----------------------------------------------------------------------------
(* The catalog: the variants of NormalizerWrapper / PreTokenizerWrapper    *)
(* that the constructors of the two files build.                           *)

NormKinds ==
    {"BertNormalizer", "Lowercase", "NFC", "NFD", "NFKC", "NFKD", "Nmt",
     "Replace", "Prepend", "StripNormalizer", "StripAccents"}

PreTokKinds ==
    {"BertPreTokenizer", "ByteLevel", "Delimiter", "Digits", "Metaspace",
     "Punctuation", "Split", "UnicodeScripts", "Whitespace", "WhitespaceSplit"}

\* The backend's own sequence variant: the `_ => todo!()` arms of class_for
\* show that the wrapped enums have variants beyond the constructors' ones.
BackendSequence == "Sequence"

Family(kind) ==
    IF kind \in NormKinds THEN "norm"
    ELSE IF kind \in PreTokKinds THEN "pretok"
    ELSE "backend"

Stage(kind, fields) == [kind |-> kind, f |-> fields]

NoFields == <<>>

\* RbStrip::new(left, right)
RbStrip(left, right) ==
    Stage("StripNormalizer", [strip_left |-> left, strip_right |-> right])

\* RbPrepend::new(prepend)
RbPrepend(prepend) == Stage("Prepend", [prepend |-> prepend])

\* RbLowercase::new()
RbLowercase == Stage("Lowercase", NoFields)

\* RbBertNormalizer::new(clean_text, handle_chinese_chars, strip_accents, lowercase)
RbBertNormalizer(clean, chinese, accents, lower) ==
    Stage("BertNormalizer",
          [clean_text |-> clean, handle_chinese_chars |-> chinese,
           strip_accents |-> accents, lowercase |-> lower])

\* RbReplace::new(pattern, content)
RbReplace(pattern, content) ==
    Stage("Replace", [pattern |-> pattern, content |-> content])

\* RbDigits::new(individual_digits)
RbDigits(individual) == Stage("Digits", [individual_digits |-> individual])

\* RbByteLevel::new(add_prefix_space, use_regex)
RbByteLevel(prefix, regex) ==
    Stage("ByteLevel", [add_prefix_space |-> prefix, use_regex |-> regex])

\* RbCharDelimiterSplit::new(delimiter)
RbCharDelimiterSplit(delimiter) == Stage("Delimiter", [delimiter |-> delimiter])

\* RbMetaspace::new(replacement, add_prefix_space)
RbMetaspace(replacement, prefix) ==
    Stage("Metaspace", [replacement |-> replacement, add_prefix_space |-> prefix])

\* RbPunctuation::new(behavior)
RbPunctuation(behavior) == Stage("Punctuation", [behavior |-> behavior])

\* RbSplit::new(pattern, behavior, invert)
RbSplit(pattern, behavior, invert) ==
    Stage("Split", [pattern |-> pattern, behavior |-> behavior, invert |-> invert])

\* The constructors without parameters
RbUnit(kind) == Stage(kind, NoFields)

----------------------------------------------------------------------------
(* Pipelines: the Rb..TypeWrapper enum *)

\* `from` is history, not program state: the handles a Sequence was composed
\* from (empty for a Single and for a decoded pipeline).
Single(fam, c) == [fam |-> fam, tag |-> "Single", cells |-> <<c>>, from |-> <<>>]

Sequence(fam, cs) == [fam |-> fam, tag |-> "Sequence", cells |-> cs, from |-> <<>>]

Handles == 1..Len(pipes)

CellIds == 1..Len(cells)

\* A slip in the Sequence arm: only the first Arc of the inner vector is kept.
ItemCellsFirstOnly(item) == <<item.cells[1]>>

\* The match of RbSequence::new on one item: a Sequence item contributes
\* clones of all its Arcs in order, a Single item a clone of its one Arc.
ItemCells(item) ==
    IF item.tag = "Sequence" THEN item.cells ELSE <<item.cells[1]>>

RECURSIVE FlattenFrom(_, _)
\* The loop of RbSequence::new from item i on, in input order.
FlattenFrom(items, i) ==
    IF i > Len(items) THEN <<>>
    ELSE ItemCells(items[i]) \o FlattenFrom(items, i + 1)

\* A composer that inserts at the front of the vector instead of pushing
SequenceOfReversed(fam, items) ==
    LET cs == FlattenFrom(items, 1)
    IN  [fam |-> fam, tag |-> "Sequence",
         cells |-> [k \in 1..Len(cs) |-> cs[Len(cs) + 1 - k]], from |-> <<>>]

\* RbSequence::new over the pipeline values of its arguments
SequenceOf(fam, items) == Sequence(fam, FlattenFrom(items, 1))

ArgTuples(n) == UNION {[1..k -> Handles] : k \in 0..n}

ItemsOf(args) == [j \in 1..Len(args) |-> pipes[args[j]]]

----------------------------------------------------------------------------
(* Call frames *)

NoBuf == [input |-> "", applied |-> <<>>]

IdleFrame ==
    [pc |-> "idle", op |-> "none", h |-> 0, i |-> 0, buf |-> NoBuf,
     out |-> <<>>, held |-> <<>>, arg |-> <<>>, ran |-> <<>>]

Unlocked == [readers |-> 0, writer |-> FALSE, poisoned |-> FALSE]

----------------------------------------------------------------------------
(* Construction and composition *)

\* The stages the constructors are called with
CtorArgs ==
    {RbStrip(TRUE, FALSE), RbLowercase, RbDigits(FALSE)}

\* From<I> for RbNormalizer / RbPreTokenizer: a fresh Arc<RwLock<..>> around
\* the stage, wrapped as Single.
Construct(stage, maxCells, maxPipes) ==
    /\ Len(cells) < maxCells
    /\ Len(pipes) < maxPipes
    /\ cells' = Append(cells, stage)
    /\ rw' = Append(rw, Unlocked)
    /\ pipes' = Append(pipes, Single(Family(stage.kind), Len(cells) + 1))
    /\ UNCHANGED <<th, failing>>

\* A composer that clones the stage data into fresh cells instead of the Arcs.
NewSequenceHeapCopying(fam, args) ==
    LET src == FlattenFrom(ItemsOf(args), 1)
        n == Len(cells)
    IN  [cells |-> cells \o [j \in 1..Len(src) |-> cells[src[j]]],
         rw |-> rw \o [j \in 1..Len(src) |-> Unlocked],
         pipes |-> Append(pipes, [Sequence(fam, [j \in 1..Len(src) |-> n + j])
                                    EXCEPT !.from = args])]

\* A composer that moves the Arcs out of its Sequence arguments (append
\* instead of extend with clones): the arguments are left without members.
NewSequenceHeapDraining(fam, args) ==
    [cells |-> cells, rw |-> rw,
     pipes |-> Append([h \in 1..Len(pipes) |->
                          IF pipes[h].tag = "Sequence" /\ \E j \in 1..Len(args) : args[j] = h
                          THEN [pipes[h] EXCEPT !.cells = <<>>]
                          ELSE pipes[h]],
                      [SequenceOf(fam, ItemsOf(args)) EXCEPT !.from = args])]

\* The heap after RbSequence::new(args): one new handle; no cell is allocated
\* and none is touched.
NewSequenceHeap(fam, args) ==
    [cells |-> cells, rw |-> rw,
     pipes |-> Append(pipes, [SequenceOf(fam, ItemsOf(args)) EXCEPT !.from = args])]

\* RbSequence::new of family fam.  An argument of the other family fails
\* try_convert and the call returns Err without building anything.
SequenceNew(fam, args, maxPipes) ==
    /\ Len(pipes) < maxPipes
    /\ \A j \in 1..Len(args) : pipes[args[j]].fam = fam
    /\ LET heap == NewSequenceHeap(fam, args)
       IN  /\ cells' = heap.cells
           /\ rw' = heap.rw
           /\ pipes' = heap.pipes
    /\ UNCHANGED <<th, failing>>

----------------------------------------------------------------------------
(* The backend: opaque stage operations and the leaf encoding *)

\* The texts handed to normalize_str / pre_tokenize_str
Inputs == {" ABC "}

\* inner.normalize(normalized) / inner.pre_tokenize(pretok) of the wrapped
\* backend stage: Err for the stages in `failing`, else the buffer with the
\* stage's effect applied in place.
BackendFails(stage) == stage \in failing

BackendApply(stage, buf) == [buf EXCEPT !.applied = Append(@, stage)]

----------------------------------------------------------------------------
(* RwLock *)

CanRead(c) == ~rw[c].writer

\* A lock that grants a write view while read views are out.
CanWriteIgnoringReaders(c) == ~rw[c].writer

\* One lock for the whole heap: a write view waits for every view anywhere.
CanWriteHeapWide(c) ==
    \A d \in CellIds : ~rw[d].writer /\ rw[d].readers = 0

CanWrite(c) == ~rw[c].writer /\ rw[c].readers = 0

\* A read view that is not held through the call: the lock does not count it
ReadLockedNotHeld(c) == rw

ReadLocked(c) == [rw EXCEPT ![c].readers = @ + 1]

WriteLocked(c) == [rw EXCEPT ![c].writer = TRUE]

\* A write guard whose drop leaves the lock write-locked
ReleasedReadOnly(g) ==
    IF g[2] = "r" THEN [rw EXCEPT ![g[1]].readers = @ - 1] ELSE rw

\* Dropping the guard g = <<cell, mode>>
Released(g) ==
    IF g[2] = "r" THEN [rw EXCEPT ![g[1]].readers = @ - 1]
    ELSE [rw EXCEPT ![g[1]].writer = FALSE]

\* A guard that is forgotten instead of dropped
DropGuardLeaked(held) == held

\* The guards a frame still holds once its newest one is dropped
DropGuard(held) == SubSeq(held, 1, Len(held) - 1)

ReadOps == {"exec", "get", "describe", "encode"}

\* A caller that takes the guard out of the PoisonError and goes on
LockOutcomeIgnoringPoison(c, op) == [kind |-> "Pending", val |-> <<>>]

\* What read() / write() of cell c gives once the lock is free: the guard, or
\* on a poisoned lock a PoisonError, on which unwrap() panics and serde's
\* Serialize for RwLock returns its own error.
LockOutcome(c, op) ==
    IF ~rw[c].poisoned THEN [kind |-> "Pending", val |-> <<>>]
    ELSE IF op = "encode"
    THEN [kind |-> "Err", val |-> "lock poison error while serializing"]
    ELSE [kind |-> "Panic", val |-> "PoisonError"]

----------------------------------------------------------------------------
(* The dispatcher: normalize_str / pre_tokenize_str *)

Ok(v) == [kind |-> "Ok", val |-> v]
Err(e) == [kind |-> "Err", val |-> e]
Panic(m) == [kind |-> "Panic", val |-> m]
Pending == [kind |-> "Pending", val |-> <<>>]

\* A dispatcher that walks the vector of a Sequence back to front
ExecCellsReversed(p) ==
    IF p.tag = "Single" THEN <<p.cells[1]>>
    ELSE [k \in 1..Len(p.cells) |-> p.cells[Len(p.cells) + 1 - k]]

\* The cells the match of normalize / pre_tokenize visits: the one cell of a
\* Single, the vector of a Sequence front to back.
ExecCells(p) == IF p.tag = "Single" THEN <<p.cells[1]>> ELSE p.cells

CurCell(t) == ExecCells(pipes[th[t].h])[th[t].i]

\* A dispatcher that answers a Sequence without stages with an error
CallExecuteEmptyFails(t, h, x) ==
    /\ th[t].pc = "idle"
    /\ LET buf == [input |-> x, applied |-> <<>>]
           none == ExecCells(pipes[h]) = <<>>
       IN  th' = [th EXCEPT ![t] =
                    [IdleFrame EXCEPT !.pc = IF none THEN "done" ELSE "acquire",
                                      !.op = "exec", !.h = h, !.i = 1,
                                      !.buf = buf,
                                      !.out = IF none THEN Err("empty sequence")
                                              ELSE Pending]]
    /\ UNCHANGED <<cells, rw, pipes, failing>>

\* normalize_str(sequence): a fresh buffer, then self.normalizer.normalize.
\* try_for_each over an empty vector returns Ok at once.
CallExecute(t, h, x) ==
    /\ th[t].pc = "idle"
    /\ LET buf == [input |-> x, applied |-> <<>>]
           none == ExecCells(pipes[h]) = <<>>
       IN  th' = [th EXCEPT ![t] =
                    [IdleFrame EXCEPT !.pc = IF none THEN "done" ELSE "acquire",
                                      !.op = "exec", !.h = h, !.i = 1,
                                      !.buf = buf,
                                      !.out = IF none THEN Ok(buf) ELSE Pending]]
    /\ UNCHANGED <<cells, rw, pipes, failing>>

\* Normalizer::normalize / PreTokenizer::pre_tokenize of the handle on a
\* buffer the caller already has: the one its last execute call left, when
\* that call succeeded.  `arg` keeps the handle of that call.
CallNormalize(t, h) ==
    /\ th[t].pc = "done"
    /\ th[t].op = "exec"
    /\ th[t].out.kind = "Ok"
    /\ th[t].arg = <<>>
    /\ pipes[h].fam = pipes[th[t].h].fam
    /\ LET none == ExecCells(pipes[h]) = <<>>
       IN  th' = [th EXCEPT ![t] =
                    [IdleFrame EXCEPT !.pc = IF none THEN "done" ELSE "acquire",
                                      !.op = "exec", !.h = h, !.i = 1,
                                      !.buf = th[t].buf,
                                      !.arg = <<th[t].h>>,
                                      !.out = IF none THEN Ok(th[t].buf) ELSE Pending]]
    /\ UNCHANGED <<cells, rw, pipes, failing>>

\* n.read().unwrap() of the current cell
AcquireRead(t) ==
    /\ th[t].pc = "acquire"
    /\ th[t].op \in ReadOps
    /\ CanRead(CurCell(t))
    /\ IF LockOutcome(CurCell(t), th[t].op).kind = "Pending"
       THEN /\ rw' = ReadLocked(CurCell(t))
            /\ th' = [th EXCEPT ![t].pc = "locked",
                                ![t].held = Append(@, <<CurCell(t), "r">>)]
       ELSE /\ rw' = rw
            /\ th' = [th EXCEPT ![t].pc = "done",
                                ![t].out = LockOutcome(CurCell(t), th[t].op)]
    /\ UNCHANGED <<cells, pipes, failing>>

\* A dispatcher that ignores a stage's Err and goes on with the next one.
AfterStageKeepGoing(f, c, n) ==
    LET stage == cells[c]
        ran == Append(f.ran, <<f.i, c>>)
        buf == IF BackendFails(stage) THEN f.buf ELSE BackendApply(stage, f.buf)
    IN  IF f.i < n
        THEN [f EXCEPT !.pc = "acquire", !.i = f.i + 1, !.buf = buf, !.ran = ran,
                       !.held = DropGuard(f.held)]
        ELSE [f EXCEPT !.pc = "done", !.buf = buf, !.ran = ran, !.held = DropGuard(f.held),
                       !.out = Ok(buf)]

\* A dispatcher that hands the caller's buffer back as it was on entry when
\* a stage fails.
AfterStageRollback(f, c, n) ==
    LET stage == cells[c]
        ran == Append(f.ran, <<f.i, c>>)
    IN  IF BackendFails(stage)
        THEN [f EXCEPT !.pc = "done", !.ran = ran, !.held = DropGuard(f.held),
                       !.buf = [f.buf EXCEPT !.applied = <<>>],
                       !.out = Err([pos |-> f.i, cell |-> c, stage |-> stage])]
        ELSE IF f.i < n
        THEN [f EXCEPT !.pc = "acquire", !.i = f.i + 1, !.ran = ran, !.held = DropGuard(f.held),
                       !.buf = BackendApply(stage, f.buf)]
        ELSE [f EXCEPT !.pc = "done", !.ran = ran, !.held = DropGuard(f.held),
                       !.buf = BackendApply(stage, f.buf),
                       !.out = Ok(BackendApply(stage, f.buf))]

\* A dispatcher that runs the first stage once more before going on.
AfterStageRepeatFirst(f, c, n) ==
    LET stage == cells[c]
        ran == Append(f.ran, <<f.i, c>>)
        again == f.i = 1 /\ Len(f.ran) = 0 /\ n > 1
    IN  IF BackendFails(stage)
        THEN [f EXCEPT !.pc = "done", !.ran = ran, !.held = DropGuard(f.held),
                       !.out = Err([pos |-> f.i, cell |-> c, stage |-> stage])]
        ELSE IF f.i < n
        THEN [f EXCEPT !.pc = "acquire", !.i = IF again THEN f.i ELSE f.i + 1,
                       !.ran = ran, !.held = DropGuard(f.held),
                       !.buf = BackendApply(stage, f.buf)]
        ELSE [f EXCEPT !.pc = "done", !.ran = ran, !.held = DropGuard(f.held),
                       !.buf = BackendApply(stage, f.buf),
                       !.out = Ok(BackendApply(stage, f.buf))]

\* The frame after the closure |n| n.read().unwrap().normalize(normalized)
\* has run on cell c, the f.i-th of n: the stage held by the cell is applied
\* to the caller's buffer, the read guard is dropped, and try_for_each stops
\* on the first Err and returns it, or moves to the next cell.
AfterStage(f, c, n) ==
    LET stage == cells[c]
        ran == Append(f.ran, <<f.i, c>>)
    IN  IF BackendFails(stage)
        THEN [f EXCEPT !.pc = "done", !.ran = ran, !.held = DropGuard(f.held),
                       !.out = Err([pos |-> f.i, cell |-> c, stage |-> stage])]
        ELSE IF f.i < n
        THEN [f EXCEPT !.pc = "acquire", !.i = f.i + 1, !.ran = ran, !.held = DropGuard(f.held),
                       !.buf = BackendApply(stage, f.buf)]
        ELSE [f EXCEPT !.pc = "done", !.ran = ran, !.held = DropGuard(f.held),
                       !.buf = BackendApply(stage, f.buf),
                       !.out = Ok(BackendApply(stage, f.buf))]

\* One stage of normalize / pre_tokenize, run under the read view
ExecStage(t) ==
    /\ th[t].pc = "locked"
    /\ th[t].op = "exec"
    /\ LET g == th[t].held[Len(th[t].held)]
       IN  /\ th' = [th EXCEPT ![t] =
                        AfterStage(th[t], g[1], Len(ExecCells(pipes[th[t].h])))]
           /\ rw' = Released(g)
    /\ UNCHANGED <<cells, pipes, failing>>

----------------------------------------------------------------------------
(* Field accessors: the getter! and setter! macros *)

\* The accessor methods of RbNormalizer and RbPreTokenizer
Accessors ==
    {[fam |-> "norm", variant |-> "BertNormalizer", field |-> "clean_text"],
     [fam |-> "norm", variant |-> "BertNormalizer", field |-> "handle_chinese_chars"],
     [fam |-> "norm", variant |-> "BertNormalizer", field |-> "strip_accents"],
     [fam |-> "norm", variant |-> "BertNormalizer", field |-> "lowercase"],
     [fam |-> "norm", variant |-> "Prepend", field |-> "prepend"],
     [fam |-> "norm", variant |-> "StripNormalizer", field |-> "strip_left"],
     [fam |-> "norm", variant |-> "StripNormalizer", field |-> "strip_right"],
     [fam |-> "pretok", variant |-> "ByteLevel", field |-> "add_prefix_space"],
     [fam |-> "pretok", variant |-> "ByteLevel", field |-> "use_regex"],
     [fam |-> "pretok", variant |-> "Delimiter", field |-> "delimiter"],
     [fam |-> "pretok", variant |-> "Digits", field |-> "individual_digits"],
     [fam |-> "pretok", variant |-> "Metaspace", field |-> "add_prefix_space"],
     [fam |-> "pretok", variant |-> "Metaspace", field |-> "replacement"]}

\* The values the setters are called with
SetValues(field) ==
    IF field \in {"prepend", "delimiter", "replacement"} THEN {"_", "-"}
    ELSE IF field = "strip_accents" THEN {"None", "Some(true)", "Some(false)"}
    ELSE BOOLEAN

\* getter!: a Sequence handle hits the outer unreachable!() before any lock.
CallGetter(t, h, acc) ==
    /\ th[t].pc = "idle"
    /\ pipes[h].fam = acc.fam
    /\ th' = [th EXCEPT ![t] =
                [IdleFrame EXCEPT
                    !.pc = IF pipes[h].tag = "Single" THEN "acquire" ELSE "done",
                    !.op = "get", !.h = h, !.i = 1, !.arg = <<acc>>,
                    !.out = IF pipes[h].tag = "Single" THEN Pending
                            ELSE Panic("unreachable")]]
    /\ UNCHANGED <<cells, rw, pipes, failing>>

\* getter! under the read view: the field of the targeted variant, or the
\* inner unreachable!(); the guard is dropped either way.
GetterRead(t) ==
    /\ th[t].pc = "locked"
    /\ th[t].op = "get"
    /\ LET g == th[t].held[Len(th[t].held)]
           acc == th[t].arg[1]
           stage == cells[g[1]]
       IN  /\ th' = [th EXCEPT ![t].pc = "done",
                               ![t].held = DropGuard(@),
                               ![t].out = IF stage.kind = acc.variant
                                          THEN Ok(stage.f[acc.field])
                                          ELSE Panic("unreachable")]
           /\ rw' = Released(g)
    /\ UNCHANGED <<cells, pipes, failing>>

\* A setter! with the else arms of getter!: a Sequence handle aborts
CallSetterAborting(t, h, acc, v) ==
    /\ th[t].pc = "idle"
    /\ pipes[h].fam = acc.fam
    /\ th' = [th EXCEPT ![t] =
                [IdleFrame EXCEPT
                    !.pc = IF pipes[h].tag = "Single" THEN "acquire" ELSE "done",
                    !.op = "set", !.h = h, !.i = 1, !.arg = <<acc, v>>,
                    !.out = IF pipes[h].tag = "Single" THEN Pending
                            ELSE Panic("unreachable")]]
    /\ UNCHANGED <<cells, rw, pipes, failing>>

\* setter!: a Sequence handle skips the if-let and returns without a lock.
CallSetter(t, h, acc, v) ==
    /\ th[t].pc = "idle"
    /\ pipes[h].fam = acc.fam
    /\ th' = [th EXCEPT ![t] =
                [IdleFrame EXCEPT
                    !.pc = IF pipes[h].tag = "Single" THEN "acquire" ELSE "done",
                    !.op = "set", !.h = h, !.i = 1, !.arg = <<acc, v>>,
                    !.out = IF pipes[h].tag = "Single" THEN Pending
                            ELSE Ok("unit")]]
    /\ UNCHANGED <<cells, rw, pipes, failing>>

\* norm.write().unwrap() / single.write().unwrap()
AcquireWrite(t) ==
    /\ th[t].pc = "acquire"
    /\ th[t].op = "set"
    /\ CanWrite(CurCell(t))
    /\ IF LockOutcome(CurCell(t), th[t].op).kind = "Pending"
       THEN /\ rw' = WriteLocked(CurCell(t))
            /\ th' = [th EXCEPT ![t].pc = "locked",
                                ![t].held = Append(@, <<CurCell(t), "w">>)]
       ELSE /\ rw' = rw
            /\ th' = [th EXCEPT ![t].pc = "done",
                                ![t].out = LockOutcome(CurCell(t), th[t].op)]
    /\ UNCHANGED <<cells, pipes, failing>>

\* An assignment that turns a cell of another variant into the targeted one
StageAfterSetRetyping(stage, acc, v) ==
    [kind |-> acc.variant,
     f |-> IF stage.kind = acc.variant
           THEN [stage.f EXCEPT ![acc.field] = v]
           ELSE [k \in {acc.field} |-> v]]

\* An assignment that also overwrites the other fields of the targeted variant
StageAfterSetSweeping(stage, acc, v) ==
    IF stage.kind = acc.variant
    THEN [stage EXCEPT !.f = [k \in DOMAIN @ |-> v]]
    ELSE stage

\* The stage after `o.$name = $value` under the write view: only the targeted
\* variant is assigned to.
StageAfterSet(stage, acc, v) ==
    IF stage.kind = acc.variant
    THEN [stage EXCEPT !.f = [@ EXCEPT ![acc.field] = v]]
    ELSE stage

\* setter! under the write view, then the guard is dropped.
SetterWrite(t) ==
    /\ th[t].pc = "locked"
    /\ th[t].op = "set"
    /\ LET g == th[t].held[Len(th[t].held)]
       IN  /\ cells' = [cells EXCEPT ![g[1]] =
                            StageAfterSet(@, th[t].arg[1], th[t].arg[2])]
           /\ th' = [th EXCEPT ![t].pc = "done",
                               ![t].held = DropGuard(@),
                               ![t].out = Ok("unit")]
           /\ rw' = Released(g)
    /\ UNCHANGED <<pipes, failing>>

\* The second arm of setter! in pre_tokenizers.rs calls a method of the
\* backend stage under the write view (pretok.set_replacement(value)).  If
\* that call unwinds, the guard is dropped during the panic and the lock is
\* left poisoned.
SetterPanic(t) ==
    /\ th[t].pc = "locked"
    /\ th[t].op = "set"
    /\ th[t].arg[1].field = "replacement"
    /\ LET g == th[t].held[Len(th[t].held)]
       IN  /\ cells[g[1]].kind = th[t].arg[1].variant
           /\ th' = [th EXCEPT ![t].pc = "done",
                               ![t].held = DropGuard(@),
                               ![t].out = Panic("setter")]
           /\ rw' = [Released(g) EXCEPT ![g[1]].poisoned = TRUE]
    /\ UNCHANGED <<cells, pipes, failing>>

----------------------------------------------------------------------------
(* The type resolver: class_for *)

\* The Ruby class each arm of class_for looks up
ClassName(kind) ==
    IF kind = "StripNormalizer" THEN "Strip"
    ELSE IF kind = "Delimiter" THEN "CharDelimiterSplit"
    ELSE kind

\* A resolver whose last arm answers with the base class of the family
ClassForDefault(stage) ==
    IF stage.kind \in NormKinds \cup PreTokKinds
    THEN [kind |-> "Ok", val |-> ClassName(stage.kind)]
    ELSE [kind |-> "Ok", val |-> "Normalizer"]

\* The match on the wrapped variant: one arm per constructor's variant, and
\* `_ => todo!()` for the rest.
ClassFor(stage) ==
    IF stage.kind \in NormKinds \cup PreTokKinds
    THEN Ok(ClassName(stage.kind))
    ELSE Panic("todo")

\* What class_for answers for a handle in the current heap
Descriptor(h) ==
    IF pipes[h].tag = "Sequence" THEN Ok("Sequence")
    ELSE ClassFor(cells[pipes[h].cells[1]])

\* class_for: the Sequence arm answers without touching a cell.
CallDescribe(t, h) ==
    /\ th[t].pc = "idle"
    /\ th' = [th EXCEPT ![t] =
                [IdleFrame EXCEPT
                    !.pc = IF pipes[h].tag = "Single" THEN "acquire" ELSE "done",
                    !.op = "describe", !.h = h, !.i = 1,
                    !.out = IF pipes[h].tag = "Single" THEN Pending
                            ELSE Ok("Sequence")]]
    /\ UNCHANGED <<cells, rw, pipes, failing>>

\* class_for under inner.read().unwrap()
DescribeRead(t) ==
    /\ th[t].pc = "locked"
    /\ th[t].op = "describe"
    /\ LET g == th[t].held[Len(th[t].held)]
       IN  /\ th' = [th EXCEPT ![t].pc = "done",
                               ![t].held = DropGuard(@),
                               ![t].out = ClassFor(cells[g[1]])]
           /\ rw' = Released(g)
    /\ UNCHANGED <<cells, pipes, failing>>

----------------------------------------------------------------------------
(* The codec: Serialize / Deserialize *)

\* Structural interchange values: objects and arrays; leaves are plain.
Obj(m) == [j |-> "obj", m |-> m]
Arr(a) == [j |-> "arr", a |-> a]

\* The name of the list field of an encoded Sequence
ListField(fam) == IF fam = "norm" THEN "normalizers" ELSE "pretokenizers"

\* The fields each variant carries
FieldsOf(kind) ==
    CASE kind = "BertNormalizer" ->
            {"clean_text", "handle_chinese_chars", "strip_accents", "lowercase"}
      [] kind = "Prepend" -> {"prepend"}
      [] kind = "Replace" -> {"pattern", "content"}
      [] kind = "StripNormalizer" -> {"strip_left", "strip_right"}
      [] kind = "ByteLevel" -> {"add_prefix_space", "use_regex"}
      [] kind = "Delimiter" -> {"delimiter"}
      [] kind = "Digits" -> {"individual_digits"}
      [] kind = "Metaspace" -> {"replacement", "add_prefix_space"}
      [] kind = "Punctuation" -> {"behavior"}
      [] kind = "Split" -> {"pattern", "behavior", "invert"}
      [] OTHER -> {}

RECURSIVE EncodeStage(_, _)
\* RbNormalizerWrapper::serialize / RbPreTokenizerWrapper::serialize: the
\* wrapped backend stage serializes itself, as an object of its fields under
\* its type name; the backend's own sequence lists its stages.
EncodeStage(stage, fam) ==
    IF stage.kind = BackendSequence
    THEN Obj(("type" :> "Sequence") @@
             (ListField(fam) :>
                Arr([k \in 1..Len(stage.f.items) |->
                        EncodeStage(stage.f.items[k], fam)])))
    ELSE Obj([k \in {"type"} \cup FieldsOf(stage.kind) |->
                IF k = "type" THEN ClassName(stage.kind) ELSE stage.f[k]])

\* A serializer that writes a Sequence as the bare list of its members
EncodeSequenceBareList(fam, members) == [j |-> "arr", a |-> members]

\* Rb..TypeWrapper::serialize, Sequence arm: a struct of two fields, the
\* discriminator and the list of the encoded members.
EncodeSequence(fam, members) ==
    Obj(("type" :> "Sequence") @@ (ListField(fam) :> Arr(members)))

\* serialize: an empty Sequence is encoded without reading any cell.
CallEncode(t, h) ==
    /\ th[t].pc = "idle"
    /\ LET none == ExecCells(pipes[h]) = <<>>
       IN  th' = [th EXCEPT ![t] =
                    [IdleFrame EXCEPT
                        !.pc = IF none THEN "done" ELSE "acquire",
                        !.op = "encode", !.h = h, !.i = 1,
                        !.out = IF none
                                THEN Ok(EncodeSequence(pipes[h].fam, <<>>))
                                ELSE Pending]]
    /\ UNCHANGED <<cells, rw, pipes, failing>>

\* Serialize for RwLock<T>: the stage is serialized under its read view, which
\* is dropped before the next member is visited.
EncodeMember(t) ==
    /\ th[t].pc = "locked"
    /\ th[t].op = "encode"
    /\ LET g == th[t].held[Len(th[t].held)]
           p == pipes[th[t].h]
           enc == EncodeStage(cells[g[1]], p.fam)
           acc == Append(th[t].arg, enc)
           last == th[t].i = Len(ExecCells(p))
       IN  /\ th' = [th EXCEPT
                        ![t].pc = IF last THEN "done" ELSE "acquire",
                        ![t].i = IF last THEN @ ELSE @ + 1,
                        ![t].held = DropGuard(@),
                        ![t].arg = acc,
                        ![t].out = IF ~last THEN Pending
                                   ELSE IF p.tag = "Single" THEN Ok(enc)
                                   ELSE Ok(EncodeSequence(p.fam, acc))]
           /\ rw' = Released(g)
    /\ UNCHANGED <<cells, pipes, failing>>

\* The variant a type name stands for in the family's wrapped enum
KindOfType(fam, name) ==
    LET ks == {k \in (IF fam = "norm" THEN NormKinds ELSE PreTokKinds) :
                    ClassName(k) = name}
    IN  IF ks = {} THEN "" ELSE CHOOSE k \in ks : TRUE

\* The order in which the wrapped enum of the backend, itself untagged,
\* tries its variants: the catalog's and its own sequence.
VariantOrder(fam) ==
    IF fam = "norm"
    THEN <<"BertNormalizer", "StripNormalizer", "StripAccents", "NFC", "NFD",
           "NFKC", "NFKD", "Sequence", "Lowercase", "Nmt", "Replace", "Prepend">>
    ELSE <<"BertPreTokenizer", "ByteLevel", "Delimiter", "Metaspace",
           "Whitespace", "Sequence", "Split", "Punctuation", "WhitespaceSplit",
           "Digits", "UnicodeScripts">>

\* A decoder that tells the variants apart by the fields present alone
MatchesByShape(kind, v, fam) ==
    /\ v.j = "obj"
    /\ IF kind = BackendSequence
       THEN ListField(fam) \in DOMAIN v.m
       ELSE FieldsOf(kind) \subseteq DOMAIN v.m

\* One variant of the wrapped enum accepts v: every backend stage reads its
\* own name under "type" and then its fields.
Matches(kind, v, fam) ==
    /\ v.j = "obj"
    /\ "type" \in DOMAIN v.m
    /\ v.m["type"] = ClassName(kind)
    /\ IF kind = BackendSequence
       THEN ListField(fam) \in DOMAIN v.m
       ELSE FieldsOf(kind) \subseteq DOMAIN v.m

\* The variants that accept v, as positions of the order of trial
MatchingVariants(v, fam) ==
    {i \in DOMAIN VariantOrder(fam) : Matches(VariantOrder(fam)[i], v, fam)}

\* serde's untagged enum: the first variant in declaration order that accepts
\* the input wins; "" when none does.
FirstMatch(v, fam) ==
    LET ms == MatchingVariants(v, fam)
    IN  IF ms = {} THEN ""
        ELSE VariantOrder(fam)[CHOOSE i \in ms : \A j \in ms : i <= j]

RECURSIVE DecodeStage(_, _)
\* Deserialize for Rb..Wrapper (untagged, one variant: Wrapped): whatever the
\* backend's wrapped enum accepts.  An object carrying the sequence
\* discriminator is the backend's own sequence variant.
DecodeStage(v, fam) ==
    LET kind == FirstMatch(v, fam)
    IN  IF kind = "" THEN Err("no variant matched")
        ELSE IF kind = BackendSequence
        THEN IF v.m[ListField(fam)].j # "arr"
             THEN Err("no variant matched")
             ELSE LET a == v.m[ListField(fam)].a
                      ds == [k \in 1..Len(a) |-> DecodeStage(a[k], fam)]
                  IN  IF \E k \in 1..Len(a) : ds[k].kind # "Ok"
                      THEN Err("no variant matched")
                      ELSE Ok(Stage(BackendSequence,
                                    [items |-> [k \in 1..Len(a) |-> ds[k].val]]))
        ELSE Ok(Stage(kind, [k \in FieldsOf(kind) |-> v.m[k]]))

\* A decoder that swallows the error of an input no variant accepts and
\* answers with an empty Sequence.
DecodeTypeWrapperDefault(v, fam) ==
    IF v.j = "arr" \/ DecodeStage(v, fam).kind # "Ok"
    THEN [kind |-> "Ok", val |-> [tag |-> "Sequence", stages |-> <<>>]]
    ELSE [kind |-> "Ok", val |-> [tag |-> "Single", stages |-> <<DecodeStage(v, fam).val>>]]

\* Deserialize for Rb..TypeWrapper (untagged): the Sequence variant is tried
\* first and takes a Vec, which only an array can be read as; anything else
\* falls to the Single variant.  The result lists the stages of the fresh
\* cells.
DecodeTypeWrapper(v, fam) ==
    IF v.j = "arr"
    THEN LET ds == [k \in 1..Len(v.a) |-> DecodeStage(v.a[k], fam)]
         IN  IF \E k \in 1..Len(v.a) : ds[k].kind # "Ok"
             THEN Err("no variant matched")
             ELSE Ok([tag |-> "Sequence",
                      stages |-> [k \in 1..Len(v.a) |-> ds[k].val]])
    ELSE LET d == DecodeStage(v, fam)
         IN  IF d.kind # "Ok" THEN d
             ELSE Ok([tag |-> "Single", stages |-> <<d.val>>])

\* A decoder that reads an object without a "type" entry by the fields it
\* carries.
DecodeHandleByShape(v, fam) ==
    IF v.j # "obj" THEN [kind |-> "Err", val |-> "expected an object"]
    ELSE LET ks == {k \in (IF fam = "norm" THEN NormKinds ELSE PreTokKinds) :
                        FieldsOf(k) = DOMAIN v.m}
         IN  IF "type" \notin DOMAIN v.m /\ ks # {}
             THEN [kind |-> "Ok",
                   val |-> [tag |-> "Single",
                            stages |-> <<Stage(CHOOSE k \in ks : TRUE, v.m)>>]]
             ELSE DecodeTypeWrapper(v, fam)

\* Deserialize for RbNormalizer / RbPreTokenizer: a struct with one flattened
\* field, so the input has to be an object.
DecodeHandle(v, fam) ==
    IF v.j # "obj" THEN Err("expected an object")
    ELSE DecodeTypeWrapper(v, fam)

\* The structure of a pipeline: its shape and the stages of its cells in order
StructOf(p) ==
    [tag |-> p.tag, stages |-> [k \in 1..Len(p.cells) |-> cells[p.cells[k]]]]

\* Decoding what an encode call returned: fresh cells for the decoded stages
\* and a new handle on them.
DecodeEncoded(t, maxCells, maxPipes) ==
    /\ th[t].pc = "done"
    /\ th[t].op = "encode"
    /\ th[t].out.kind = "Ok"
    /\ LET fam == pipes[th[t].h].fam
           d == DecodeHandle(th[t].out.val, fam)
           n == Len(cells)
       IN  IF d.kind # "Ok"
           THEN /\ th' = [th EXCEPT ![t].op = "decode", ![t].out = d]
                /\ UNCHANGED <<cells, rw, pipes>>
           ELSE /\ n + Len(d.val.stages) <= maxCells
                /\ Len(pipes) < maxPipes
                /\ cells' = cells \o d.val.stages
                /\ rw' = rw \o [k \in 1..Len(d.val.stages) |-> Unlocked]
                /\ pipes' = Append(pipes,
                                   [fam |-> fam, tag |-> d.val.tag,
                                    cells |-> [k \in 1..Len(d.val.stages) |-> n + k],
                                    from |-> <<>>])
                /\ th' = [th EXCEPT ![t].op = "decode",
                                    ![t].out = Ok(Len(pipes) + 1)]
    /\ UNCHANGED failing

\* Decoding a structural value the host hands in: the outcome of
\* RbNormalizer::deserialize / RbPreTokenizer::deserialize, fresh cells for
\* the decoded stages and a new handle on them, or the error.
Load(t, fam, v, maxCells, maxPipes) ==
    /\ th[t].pc = "idle"
    /\ LET d == DecodeHandle(v, fam)
           n == Len(cells)
           frame == [IdleFrame EXCEPT !.pc = "done", !.op = "load", !.arg = <<fam, v>>]
       IN  IF d.kind # "Ok"
           THEN /\ th' = [th EXCEPT ![t] = [frame EXCEPT !.out = d]]
                /\ UNCHANGED <<cells, rw, pipes>>
           ELSE /\ n + Len(d.val.stages) <= maxCells
                /\ Len(pipes) < maxPipes
                /\ cells' = cells \o d.val.stages
                /\ rw' = rw \o [k \in 1..Len(d.val.stages) |-> Unlocked]
                /\ pipes' = Append(pipes,
                                   [fam |-> fam, tag |-> d.val.tag,
                                    cells |-> [k \in 1..Len(d.val.stages) |-> n + k],
                                    from |-> <<>>])
                /\ th' = [th EXCEPT ![t] = [frame EXCEPT !.out = Ok(Len(pipes) + 1)]]
    /\ UNCHANGED failing

\* The call returns to the host; the frame is gone.
Return(t) ==
    /\ th[t].pc = "done"
    /\ th' = [th EXCEPT ![t] = IdleFrame]
    /\ UNCHANGED <<cells, rw, pipes, failing>>

EmptyHeapInit ==
    /\ cells = <<>>
    /\ rw = <<>>
    /\ pipes = <<>>
    /\ th = [t \in Threads |-> IdleFrame]
    /\ failing = {}

ComposeConstruct == \E stage \in CtorArgs : Construct(stage, MaxCells, ComposeMaxPipes)

ComposeSequenceNew ==
    \E fam \in {"norm", "pretok"} : \E args \in ArgTuples(ComposeMaxArgs) :
        SequenceNew(fam, args, ComposeMaxPipes)

ComposeNext == ComposeConstruct \/ ComposeSequenceNew

SpecCompose == EmptyHeapInit /\ [][ComposeNext]_vars

----------------------------------------------------------------------------
(* The sequential API: one caller builds pipelines and calls them *)

\* The accessors the callers of the bounded runs use
RunAccessors ==
    {a \in Accessors : a.field \in {"strip_left", "strip_right", "individual_digits"}}

\* The backend behaviours of the bounded runs: which stages return Err
FailChoices == {{}, {RbLowercase}}

Init ==
    /\ cells = <<>>
    /\ rw = <<>>
    /\ pipes = <<>>
    /\ th = [t \in Threads |-> IdleFrame]
    /\ failing \in FailChoices

Call(t) ==
    \/ \E h \in Handles : \E x \in Inputs : CallExecute(t, h, x)
    \/ \E h \in Handles : \E acc \in RunAccessors : CallGetter(t, h, acc)
    \/ \E h \in Handles : \E acc \in RunAccessors :
          \E v \in SetValues(acc.field) : CallSetter(t, h, acc, v)
    \/ \E h \in Handles : CallDescribe(t, h)
    \/ \E h \in Handles : CallEncode(t, h)

Step(t) ==
    \/ AcquireRead(t)
    \/ AcquireWrite(t)
    \/ ExecStage(t)
    \/ GetterRead(t)
    \/ SetterWrite(t)
    \/ DescribeRead(t)
    \/ EncodeMember(t)
    \/ Return(t)

Build ==
    \/ \E stage \in CtorArgs : Construct(stage, MaxCells, MaxPipes)
    \/ \E fam \in {"norm", "pretok"} : \E args \in ArgTuples(MaxArgs) :
          SequenceNew(fam, args, MaxPipes)

\* One caller: it builds between its calls.
Next == (th[1].pc = "idle" /\ Build) \/ Call(1) \/ Step(1)

Spec == Init /\ [][Next]_vars

----------------------------------------------------------------------------
(* Concurrent callers on a built heap *)

\* The argument lists the shared Sequence of the concurrent runs is built
\* from: one lists a cell twice.
ConcArgs == {<<1, 2>>, <<2, 1, 2>>}

\* MaxCells constructed stages, a Single handle on each, and one Sequence
\* composed from those handles by one of the argument lists.
BuiltHeap(argLists) ==
    /\ cells = [c \in 1..MaxCells |->
                    IF c % 2 = 1 THEN RbStrip(TRUE, FALSE) ELSE RbLowercase]
    /\ rw = [c \in 1..MaxCells |-> Unlocked]
    /\ \E args \in argLists :
          LET singles == [c \in 1..MaxCells |-> Single("norm", c)]
          IN  pipes = Append(singles,
                             [SequenceOf("norm", [j \in 1..Len(args) |-> singles[args[j]]])
                                EXCEPT !.from = args])
    /\ th = [t \in Threads |-> IdleFrame]
    /\ failing \in FailChoices

ConcInit == BuiltHeap(ConcArgs)

ConcNext == \E t \in Threads : Call(t) \/ Step(t)

SpecConc == ConcInit /\ [][ConcNext]_vars

\* Taking the lock a call waits for
Acquire(t) == AcquireRead(t) \/ AcquireWrite(t)

\* What a call does under its lock, through the drop of the guard: the
\* backend stage call, the field read or write, the match, the serializer.
Finish(t) ==
    \/ ExecStage(t)
    \/ GetterRead(t)
    \/ SetterWrite(t)
    \/ DescribeRead(t)
    \/ EncodeMember(t)

\* Fair scheduling: a thread that can run under its lock does (every backend
\* stage call terminates), and a thread waiting for a lock that is free
\* again and again gets it.
FairSpec ==
    /\ BuiltHeap({<<2, 1, 2>>})
    /\ [][ConcNext]_vars
    /\ \A t \in Threads : WF_vars(Finish(t)) /\ SF_vars(Acquire(t))

----------------------------------------------------------------------------
(* Callers on a heap where an exclusive access can end abnormally *)

\* The accessors of the runs: the one whose setter calls into the backend
\* under the write view, and a plain one.
PoisonAccessors ==
    {a \in Accessors : a.field \in {"replacement", "individual_digits"}}

\* Metaspace and Digits, a Single handle on each, and a Sequence of both.
PoisonInit ==
    /\ cells = <<RbMetaspace("_", TRUE), RbDigits(FALSE)>>
    /\ rw = <<Unlocked, Unlocked>>
    /\ pipes = <<Single("pretok", 1), Single("pretok", 2),
                 [Sequence("pretok", <<2, 1>>) EXCEPT !.from = <<2, 1>>]>>
    /\ th = [t \in Threads |-> IdleFrame]
    /\ failing = {}

PoisonCall(t) ==
    \/ \E h \in Handles : \E x \in Inputs : CallExecute(t, h, x)
    \/ \E h \in Handles : \E acc \in PoisonAccessors : CallGetter(t, h, acc)
    \/ \E h \in Handles : \E acc \in PoisonAccessors : CallSetter(t, h, acc, "-")
    \/ \E h \in Handles : CallDescribe(t, h)
    \/ \E h \in Handles : CallEncode(t, h)

PoisonNext == \E t \in Threads : PoisonCall(t) \/ Step(t) \/ SetterPanic(t)

SpecPoison == PoisonInit /\ [][PoisonNext]_vars

----------------------------------------------------------------------------
(* Two callers that only execute, on a heap of Singles and Sequences of them *)

\* Strip and Lowercase, a Single handle on each, Sequence.new([1]),
\* Sequence.new([2, 1]) and Sequence.new([4, 2]).
UniformInit ==
    /\ cells = <<RbStrip(TRUE, FALSE), RbLowercase>>
    /\ rw = <<Unlocked, Unlocked>>
    /\ LET s1 == Single("norm", 1)
           s2 == Single("norm", 2)
           q1 == [SequenceOf("norm", <<s1>>) EXCEPT !.from = <<1>>]
           q2 == [SequenceOf("norm", <<s2, s1>>) EXCEPT !.from = <<2, 1>>]
           q3 == [SequenceOf("norm", <<q2, s2>>) EXCEPT !.from = <<4, 2>>]
       IN  pipes = <<s1, s2, q1, q2, q3>>
    /\ th = [t \in Threads |-> IdleFrame]
    /\ failing \in FailChoices \cup {{RbStrip(TRUE, FALSE)}}

UniformNext ==
    \E t \in Threads :
        \/ \E h \in Handles : \E x \in Inputs : CallExecute(t, h, x)
        \/ \E h \in Handles : CallNormalize(t, h)
        \/ AcquireRead(t)
        \/ ExecStage(t)
        \/ Return(t)

SpecUniform == UniformInit /\ [][UniformNext]_vars

----------------------------------------------------------------------------
(* Serialization round trips over the whole catalog *)

\* One stage (two where a field matters) of every variant the constructors
\* of the two files build
CatalogStages ==
    {RbBertNormalizer(TRUE, TRUE, "None", TRUE),
     RbBertNormalizer(FALSE, TRUE, "Some(false)", FALSE),
     RbPrepend("_"), RbReplace("a", "e"),
     RbStrip(TRUE, FALSE), RbStrip(FALSE, TRUE),
     RbByteLevel(TRUE, FALSE), RbCharDelimiterSplit("-"), RbDigits(TRUE),
     RbMetaspace("_", TRUE), RbPunctuation("isolated"),
     RbSplit("a", "removed", FALSE)}
    \cup {RbUnit(k) : k \in {"Lowercase", "NFC", "NFD", "NFKC", "NFKD", "Nmt",
                             "StripAccents", "BertPreTokenizer", "UnicodeScripts",
                             "Whitespace", "WhitespaceSplit"}}

CodecBuild ==
    \/ \E stage \in CatalogStages : Construct(stage, CodecMaxCells - 1, CodecMaxPipes - 1)
    \/ \E fam \in {"norm", "pretok"} : \E args \in ArgTuples(MaxArgs) :
          SequenceNew(fam, args, CodecMaxPipes - 1)

CodecNext ==
    \/ th[1].pc = "idle" /\ CodecBuild
    \/ \E h \in Handles : CallEncode(1, h)
    \/ AcquireRead(1)
    \/ EncodeMember(1)
    \/ DecodeEncoded(1, CodecMaxCells, CodecMaxPipes)
    \/ Return(1)

SpecCodec == EmptyHeapInit /\ [][CodecNext]_vars

----------------------------------------------------------------------------
(* Loading structural values the host hands in *)

\* The values handed to the decoder: encodings of single stages, of
\* sequences (empty, nested), objects without the "type" entry, an object
\* of an unknown type, and a bare array.
LoadInputs(fam) ==
    IF fam = "norm"
    THEN {Obj([type |-> "Lowercase"]),
          Obj([type |-> "Strip", strip_left |-> TRUE, strip_right |-> FALSE]),
          Obj([type |-> "Sequence", normalizers |-> Arr(<<>>)]),
          Obj([type |-> "Sequence",
               normalizers |->
                   Arr(<<Obj([type |-> "Lowercase"]),
                         Obj([type |-> "Sequence",
                              normalizers |-> Arr(<<Obj([type |-> "NFC"])>>)])>>)]),
          Obj([strip_left |-> TRUE, strip_right |-> FALSE]),
          Obj([type |-> "Unknown"]),
          Arr(<<Obj([type |-> "Lowercase"])>>)}
    ELSE {Obj([delimiter |-> "-"]),
          Obj([type |-> "CharDelimiterSplit", delimiter |-> "-"]),
          Obj([type |-> "Whitespace"]),
          Obj([type |-> "Sequence",
               pretokenizers |-> Arr(<<Obj([type |-> "Whitespace"])>>)])}

LoadBuild ==
    \/ \E stage \in CtorArgs : Construct(stage, LoadMaxCells, LoadMaxPipes)
    \/ \E fam \in {"norm", "pretok"} : \E args \in ArgTuples(MaxArgs) :
          SequenceNew(fam, args, LoadMaxPipes)

LoadNext ==
    \/ th[1].pc = "idle" /\ LoadBuild
    \/ \E fam \in {"norm", "pretok"} : \E v \in LoadInputs(fam) :
          Load(1, fam, v, LoadMaxCells, LoadMaxPipes)
    \/ \E h \in Handles : CallDescribe(1, h)
    \/ AcquireRead(1)
    \/ DescribeRead(1)
    \/ Return(1)

SpecLoad == EmptyHeapInit /\ [][LoadNext]_vars

----------------------------------------------------------------------------
(* C1: flattening law.  For all pipelines A, B, C, D of one family that the *)
(* program has built, Sequence.new([A, Sequence.new([B, C]), D]) holds the  *)
(* same ordered list of cell identities as Sequence.new([A, B, C, D]).      *)
FlatteningLaw ==
    \A a, b, c, d \in Handles :
        LET A == pipes[a]
            B == pipes[b]
            C == pipes[c]
            D == pipes[d]
        IN  (A.fam = B.fam /\ B.fam = C.fam /\ C.fam = D.fam) =>
                SequenceOf(A.fam, <<A, SequenceOf(A.fam, <<B, C>>), D>>).cells
                    = SequenceOf(A.fam, <<A, B, C, D>>).cells

\* A heap in which Sequence.new was called on [A, S, D] with S a sequence
\* built from two distinct cells, and came out flat.
FlatteningWitness ==
    \E a, s, d, r \in Handles :
        /\ pipes[a].tag = "Single" /\ pipes[d].tag = "Single"
        /\ pipes[s].tag = "Sequence" /\ Len(pipes[s].cells) = 2
        /\ pipes[s].cells[1] # pipes[s].cells[2]
        /\ pipes[r].from = <<a, s, d>>
        /\ pipes[r].cells = <<pipes[a].cells[1]>> \o pipes[s].cells \o <<pipes[d].cells[1]>>

----------------------------------------------------------------------------
\* The stages a pipeline runs, in order, as the cells hold them now
StagesOf(p) == [k \in 1..Len(p.cells) |-> cells[p.cells[k]]]

RECURSIVE StagesOfAll(_, _)
\* The stages of the pipelines of handles hs from the j-th on, end to end
StagesOfAll(hs, j) ==
    IF j > Len(hs) THEN <<>>
    ELSE StagesOf(pipes[hs[j]]) \o StagesOfAll(hs, j + 1)

ExecFrames == {t \in Threads : th[t].op = "exec"}

(* C2: aliasing.  A cell referenced by a Single handle and by Sequences      *)
(* composed from it is one cell: whatever a setter wrote through the Single *)
(* handle is what every such Sequence holds at that position, what a later  *)
(* getter returns and what a later execute of the pipeline runs.            *)
AliasingVisible ==
    /\ \A q \in Handles :
          pipes[q].tag = "Sequence" =>
              StagesOf(pipes[q]) = StagesOfAll(pipes[q].from, 1)
    /\ \A t \in Threads :
          (th[t].pc = "done" /\ th[t].out.kind = "Ok") =>
              /\ th[t].op = "exec" =>
                    th[t].buf.applied = StagesOf(pipes[th[t].h])
              /\ th[t].op = "get" =>
                    th[t].out.val =
                        cells[pipes[th[t].h].cells[1]].f[th[t].arg[1].field]

\* A Sequence composed from a Single handle has been executed after a setter
\* through that handle changed the cell: the run applied the new value.
AliasingWitness ==
    \E t \in Threads : \E p \in Handles :
        /\ th[t].pc = "done" /\ th[t].op = "exec" /\ th[t].out.kind = "Ok"
        /\ pipes[th[t].h].tag = "Sequence"
        /\ pipes[p].tag = "Single"
        /\ \E j \in 1..Len(pipes[th[t].h].from) : pipes[th[t].h].from[j] = p
        /\ cells[pipes[p].cells[1]] = RbStrip(FALSE, FALSE)
        /\ \E k \in 1..Len(th[t].buf.applied) :
              th[t].buf.applied[k] = RbStrip(FALSE, FALSE)

(* C3: executing a pipeline invokes the stage of each cell once per list    *)
(* position, first to last, each on the buffer the previous stage left; no  *)
(* stage is skipped, repeated or retried while the stages succeed.          *)
ExecInOrder ==
    \A t \in ExecFrames :
        LET f == th[t]
            cs == ExecCells(pipes[f.h])
        IN  /\ Len(f.ran) <= Len(cs)
            /\ \A k \in 1..Len(f.ran) : f.ran[k] = <<k, cs[k]>>
            /\ f.pc \in {"acquire", "locked"} =>
                  /\ Len(f.ran) = f.i - 1
                  /\ f.buf.applied = [k \in 1..Len(f.ran) |-> cells[cs[k]]]
            /\ (f.pc = "done" /\ f.out.kind = "Ok") =>
                  /\ Len(f.ran) = Len(cs)
                  /\ f.buf.applied = [k \in 1..Len(cs) |-> cells[cs[k]]]
                  /\ f.out.val = f.buf

\* A Sequence of at least two distinct cells has run to the end.
ExecInOrderWitness ==
    \E t \in ExecFrames :
        /\ th[t].pc = "done" /\ th[t].out.kind = "Ok"
        /\ pipes[th[t].h].tag = "Sequence"
        /\ Len(th[t].ran) >= 2
        /\ th[t].ran[1][2] # th[t].ran[2][2]

\* The positions of pipeline p whose stage the backend fails
FailingPositions(p) ==
    {k \in 1..Len(ExecCells(p)) : BackendFails(cells[ExecCells(p)[k]])}

Min(S) == CHOOSE k \in S : \A m \in S : k <= m

(* C4: fail-fast.  When the stage at position k is the first to fail, no    *)
(* stage after k is invoked in that call and the error returned is the one  *)
(* of stage k.                                                              *)
FailFast ==
    \A t \in ExecFrames :
        LET f == th[t]
            p == pipes[f.h]
            bad == FailingPositions(p)
        IN  f.pc = "done" =>
              /\ bad = {} => f.out.kind = "Ok"
              /\ bad # {} =>
                    /\ f.out.kind = "Err"
                    /\ f.out.val.pos = Min(bad)
                    /\ f.out.val.cell = ExecCells(p)[Min(bad)]
                    /\ f.out.val.stage = cells[ExecCells(p)[Min(bad)]]
                    /\ Len(f.ran) = Min(bad)

\* A call failed at a position that is not the last: stages were left unrun.
FailFastWitness ==
    \E t \in ExecFrames :
        /\ th[t].pc = "done" /\ th[t].out.kind = "Err"
        /\ th[t].out.val.pos < Len(ExecCells(pipes[th[t].h]))

(* C5: no rollback.  When a Sequence fails at stage k, the caller's buffer  *)
(* still carries the effects of stages 1..k-1.                              *)
NoRollback ==
    \A t \in ExecFrames :
        LET f == th[t]
            cs == ExecCells(pipes[f.h])
        IN  (f.pc = "done" /\ f.out.kind = "Err") =>
              f.buf.applied = [k \in 1..(f.out.val.pos - 1) |-> cells[cs[k]]]

\* A call failed at a position after the first: earlier effects are there.
NoRollbackWitness ==
    \E t \in ExecFrames :
        /\ th[t].pc = "done" /\ th[t].out.kind = "Err"
        /\ th[t].out.val.pos >= 2
        /\ Len(th[t].buf.applied) = th[t].out.val.pos - 1

----------------------------------------------------------------------------
\* The guards of the given mode that threads hold on cell c
Guards(c, mode) ==
    {tk \in Threads \X (1..2) :
        /\ tk[2] <= Len(th[tk[1]].held)
        /\ th[tk[1]].held[tk[2]] = <<c, mode>>}

(* C6: reader/writer exclusion per cell.  For each cell either no view is   *)
(* held, or read views only, or exactly one write view and no read view;    *)
(* the lock's own state agrees with the views the threads hold.             *)
ReaderWriterExclusion ==
    \A c \in CellIds :
        LET r == Cardinality(Guards(c, "r"))
            w == Cardinality(Guards(c, "w"))
        IN  /\ w = 0 \/ (w = 1 /\ r = 0)
            /\ rw[c].readers = r
            /\ rw[c].writer = (w = 1)

\* Two executes of different pipelines hold read views of one cell at once.
ReaderWriterWitness ==
    \E c \in CellIds : \E t1, t2 \in Threads :
        /\ t1 # t2
        /\ th[t1].op = "exec" /\ th[t2].op = "exec"
        /\ th[t1].h # th[t2].h
        /\ th[t1].held = <<<<c, "r">>>>
        /\ th[t2].held = <<<<c, "r">>>>

(* C7: single-lock discipline.  A thread holds at most one cell lock; the   *)
(* lock of a stage is released before the next stage's lock is acquired;    *)
(* a thread that is not inside a stage, a read or a write holds none, so    *)
(* none is held when a call returns, with a value or an error.              *)
SingleLock ==
    \A t \in Threads :
        /\ Len(th[t].held) <= 1
        /\ th[t].pc \in {"idle", "acquire", "done"} => th[t].held = <<>>
        /\ th[t].pc = "locked" =>
              /\ Len(th[t].held) = 1
              /\ th[t].held[1][1] = CurCell(t)
        /\ (\A u \in Threads : th[u].pc # "locked") =>
              \A c \in CellIds : rw[c] = Unlocked

\* An execute of a Sequence is between two stages: the first lock is gone
\* and the second not yet taken.
SingleLockWitness ==
    \E t \in Threads :
        /\ th[t].op = "exec" /\ th[t].pc = "acquire" /\ th[t].i = 2
        /\ th[t].held = <<>>
        /\ \A c \in CellIds : rw[c] = Unlocked

\* The threads other than t that hold a view of cell c
Holders(c, t) ==
    {u \in Threads \ {t} : \E k \in 1..Len(th[u].held) : th[u].held[k][1] = c}

WriteHolders(c, t) ==
    {u \in Threads \ {t} : \E k \in 1..Len(th[u].held) : th[u].held[k] = <<c, "w">>}

(* C8: per-cell granularity.  A setter waiting for cell c can take its      *)
(* write view exactly when no thread holds a view of c itself, whatever     *)
(* other cells are locked; a reader waits only for a write view of c.       *)
PerCellLocking ==
    \A t \in Threads :
        th[t].pc = "acquire" =>
            LET c == CurCell(t)
            IN  /\ th[t].op = "set" => (CanWrite(c) <=> Holders(c, t) = {})
                /\ th[t].op \in ReadOps => (CanRead(c) <=> WriteHolders(c, t) = {})

\* A setter is about to lock cell c and may, while an execute of a Sequence
\* that contains c is running a stage on another cell.
PerCellWitness ==
    \E t, u \in Threads :
        /\ th[t].pc = "acquire" /\ th[t].op = "set"
        /\ th[u].pc = "locked" /\ th[u].op = "exec"
        /\ pipes[th[u].h].tag = "Sequence"
        /\ \E k \in 1..Len(pipes[th[u].h].cells) : pipes[th[u].h].cells[k] = CurCell(t)
        /\ th[u].held[1][1] # CurCell(t)
        /\ CanWrite(CurCell(t))

----------------------------------------------------------------------------
(* C10: round trip.  Decoding what encode returned for a pipeline gives a   *)
(* pipeline of the same structure: a Single of the same variant and fields, *)
(* or a Sequence of the same stages in the same order.                      *)
RoundTrip ==
    \A t \in Threads :
        (th[t].pc = "done" /\ th[t].op = "decode") =>
            /\ th[t].out.kind = "Ok"
            /\ StructOf(pipes[th[t].out.val]) = StructOf(pipes[th[t].h])

----------------------------------------------------------------------------
(* C11: decoding an input that carries the sequence discriminator yields a  *)
(* Sequence pipeline whose cells hold the decoded list elements in order,   *)
(* flattened: a sequence serialized inside another loads as one flat        *)
(* Sequence of leaf cells.                                                  *)
LoadsSequenceFlat ==
    \A t \in Threads :
        LET fam == th[t].arg[1]
            v == th[t].arg[2]
            RECURSIVE Leaves(_)
            Leaves(w) ==
                IF w.m["type"] = "Sequence"
                THEN LET a == w.m[ListField(fam)].a
                         RECURSIVE From(_)
                         From(i) == IF i > Len(a) THEN <<>>
                                    ELSE Leaves(a[i]) \o From(i + 1)
                     IN  From(1)
                ELSE <<DecodeStage(w, fam).val>>
        IN  (/\ th[t].pc = "done"
             /\ th[t].op = "load"
             /\ Matches(BackendSequence, v, fam)) =>
                /\ th[t].out.kind = "Ok"
                /\ pipes[th[t].out.val].tag = "Sequence"
                /\ StructOf(pipes[th[t].out.val]).stages = Leaves(v)

----------------------------------------------------------------------------
(* C12: no nested sequence.  In every reachable state every element of a   *)
(* Sequence pipeline's cell list is a cell holding one leaf stage, never a  *)
(* sequence.                                                                *)
NoNestedSequence ==
    \A h \in Handles :
        pipes[h].tag = "Sequence" =>
            \A k \in 1..Len(pipes[h].cells) :
                /\ pipes[h].cells[k] \in CellIds
                /\ cells[pipes[h].cells[k]].kind # BackendSequence
                /\ cells[pipes[h].cells[k]].kind \in NormKinds \cup PreTokKinds

----------------------------------------------------------------------------
(* C13: describe is total and correct.  On every reachable pipeline a       *)
(* describe call takes no lock for a Sequence and answers "Sequence", and   *)
(* for a Single it answers the descriptor of the variant its cell holds; it *)
(* never panics.                                                            *)
DescribeTotal ==
    \A t \in Threads :
        th[t].op = "describe" =>
            LET p == pipes[th[t].h]
            IN  /\ th[t].out.kind # "Panic"
                /\ p.tag = "Sequence" =>
                      /\ th[t].pc = "done"
                      /\ th[t].held = <<>>
                      /\ th[t].out = Ok("Sequence")
                /\ (p.tag = "Single" /\ th[t].pc = "done") =>
                      th[t].out = Ok(ClassName(cells[p.cells[1]].kind))

----------------------------------------------------------------------------
(* C14: an unmatched kind fails loudly.  A describe call on a Single whose  *)
(* cell holds a kind without an arm ends in a failure, never in a           *)
(* descriptor.                                                              *)
UnmatchedKindFails ==
    \A t \in Threads :
        (/\ th[t].op = "describe"
         /\ th[t].pc = "done"
         /\ pipes[th[t].h].tag = "Single"
         /\ cells[pipes[th[t].h].cells[1]].kind \notin NormKinds \cup PreTokKinds) =>
            /\ th[t].out.kind = "Panic"
            /\ th[t].out.kind # "Ok"

UnmatchedKindWitness ==
    \E t \in Threads :
        /\ th[t].op = "describe"
        /\ th[t].pc = "done"
        /\ pipes[th[t].h].tag = "Single"
        /\ cells[pipes[th[t].h].cells[1]].kind = BackendSequence
        /\ th[t].out = Panic("todo")

----------------------------------------------------------------------------
----------------------------------------------------------------------------
----------------------------------------------------------------------------
----------------------------------------------------------------------------
(* C18: poisoned lock.  Once an exclusive access to a cell has ended        *)
(* abnormally under the lock, no thread ever holds a view of that cell      *)
(* again, and every call that reaches the cell ends there with the lock's   *)
(* own failure, which is not an execution error, whatever the call is.      *)
PoisonedLockFails ==
    /\ [](\A t \in Threads :
            \A k \in 1..Len(th[t].held) : ~rw[th[t].held[k][1]].poisoned)
    /\ [][\A t \in Threads :
            (/\ th[t].pc = "acquire"
             /\ rw[CurCell(t)].poisoned
             /\ th'[t] # th[t]) =>
                /\ th'[t].pc = "done"
                /\ th'[t].held = <<>>
                /\ th'[t].out \in {Panic("PoisonError"),
                                   Err("lock poison error while serializing")}
                /\ cells' = cells]_vars

\* A cell is poisoned, and calls of other kinds have since ended on it: an
\* execute in the lock's panic and an encode in the lock's error.
PoisonedLockWitness ==
    \E c \in CellIds :
        /\ rw[c].poisoned
        /\ th[1].pc = "done" /\ th[1].op = "exec" /\ th[1].out = Panic("PoisonError")
        /\ th[2].pc = "done" /\ th[2].op = "encode"
        /\ th[2].out = Err("lock poison error while serializing")

----------------------------------------------------------------------------
(* C19: Sequence.new concatenates.  The cell list of a Sequence built by    *)
(* Sequence.new is the concatenation, in input order, of the leaf cells of  *)
(* its inputs (one for a Single, all in order for a Sequence): its length   *)
(* is the total leaf count, a cell occurs as often as in the inputs         *)
(* together, and no input gives the empty Sequence.                         *)
ConcatenationLaw ==
    \A h \in Handles :
        LET p == pipes[h]
            Leaves(j) == ExecCells(pipes[p.from[j]])
            Occurs(c, q) == Cardinality({k \in 1..Len(q) : q[k] = c})
            RECURSIVE Concat(_)
            Concat(j) == IF j > Len(p.from) THEN <<>> ELSE Leaves(j) \o Concat(j + 1)
            RECURSIVE Total(_)
            Total(j) == IF j > Len(p.from) THEN 0 ELSE Len(Leaves(j)) + Total(j + 1)
            RECURSIVE TotalOccurs(_, _)
            TotalOccurs(c, j) ==
                IF j > Len(p.from) THEN 0
                ELSE Occurs(c, Leaves(j)) + TotalOccurs(c, j + 1)
        IN  p.tag = "Sequence" =>
                /\ p.cells = Concat(1)
                /\ Len(p.cells) = Total(1)
                /\ \A c \in CellIds : Occurs(c, p.cells) = TotalOccurs(c, 1)
                /\ p.from = <<>> => p.cells = <<>>

\* A Sequence built from a Sequence of two cells and a Single that shares a
\* cell with it: the result lists that cell twice.
ConcatenationWitness ==
    \E h \in Handles :
        /\ pipes[h].tag = "Sequence"
        /\ Len(pipes[h].from) = 2
        /\ pipes[pipes[h].from[1]].tag = "Sequence"
        /\ Len(pipes[pipes[h].from[1]].cells) = 2
        /\ pipes[pipes[h].from[2]].tag = "Single"
        /\ Len(pipes[h].cells) = 3
        /\ pipes[h].cells[1] # pipes[h].cells[2]
        /\ pipes[h].cells[3] = pipes[h].cells[1]

----------------------------------------------------------------------------
(* C20: the empty sequence is the identity.  An execute call on a Sequence  *)
(* without cells is done at once: it returns Ok with the buffer equal to    *)
(* the input, has invoked no stage and has taken no lock.                   *)
EmptySequenceIdentity ==
    \A t \in Threads :
        (th[t].op = "exec" /\ ExecCells(pipes[th[t].h]) = <<>>) =>
            /\ th[t].pc = "done"
            /\ th[t].out = Ok([input |-> th[t].buf.input, applied |-> <<>>])
            /\ th[t].buf.applied = <<>>
            /\ th[t].ran = <<>>
            /\ th[t].held = <<>>
            /\ \A c \in CellIds : rw[c] = Unlocked

\* The empty Sequence has been executed on a text, on a heap that has stages.
EmptySequenceWitness ==
    \E t \in Threads :
        /\ th[t].op = "exec"
        /\ th[t].pc = "done"
        /\ pipes[th[t].h].tag = "Sequence"
        /\ pipes[th[t].h].cells = <<>>
        /\ th[t].buf.input = " ABC "
        /\ th[t].out.kind = "Ok"
        /\ th[t].out.val.input = " ABC "
        /\ cells # <<>>

----------------------------------------------------------------------------
(* C21: a Sequence's member list is fixed.  No step of any operation        *)
(* (execute, getter, setter, describe, encode, Sequence.new with it as an   *)
(* argument) changes the identities, the number or the order of the cells   *)
(* of an existing Sequence; Sequence.new leaves the member lists of all     *)
(* its arguments as they were.                                              *)
MemberListFixed ==
    [][\A h \in Handles :
          /\ h \in DOMAIN pipes'
          /\ pipes'[h].tag = pipes[h].tag
          /\ pipes'[h].cells = pipes[h].cells]_vars

\* A Sequence with two members has been an argument of another Sequence.new,
\* and a setter on a member's handle has changed the member's configuration.
MemberListWitness ==
    \E h, h2, s \in Handles :
        /\ pipes[h].tag = "Sequence"
        /\ Len(pipes[h].cells) = 2
        /\ pipes[h2].tag = "Sequence"
        /\ \E j \in 1..Len(pipes[h2].from) : pipes[h2].from[j] = h
        /\ pipes[s].tag = "Single"
        /\ pipes[s].cells[1] = pipes[h].cells[1]
        /\ th[1].pc = "done" /\ th[1].op = "set" /\ th[1].h = s
        /\ cells[pipes[s].cells[1]] = RbStrip(FALSE, FALSE)

----------------------------------------------------------------------------
(* C22: encoding of a Sequence.  The value an encode call returns for a     *)
(* Sequence is an object with type = "Sequence" and one list field, named   *)
(* after the family, with one element per member cell, the i-th being the   *)
(* encoding of the stage the i-th cell holds.                               *)
SequenceEncoding ==
    \A t \in Threads :
        LET p == pipes[th[t].h]
            v == th[t].out.val
        IN  (/\ th[t].op = "encode"
             /\ th[t].pc = "done"
             /\ p.tag = "Sequence") =>
                /\ th[t].out.kind = "Ok"
                /\ v.j = "obj"
                /\ DOMAIN v.m = {"type", ListField(p.fam)}
                /\ v.m["type"] = "Sequence"
                /\ ListField(p.fam) = IF p.fam = "norm" THEN "normalizers"
                                      ELSE "pretokenizers"
                /\ v.m[ListField(p.fam)].j = "arr"
                /\ Len(v.m[ListField(p.fam)].a) = Len(p.cells)
                /\ \A i \in 1..Len(p.cells) :
                      v.m[ListField(p.fam)].a[i] = EncodeStage(cells[p.cells[i]], p.fam)

\* A Sequence of two members has been encoded after a setter changed one of
\* them: the list carries the changed configuration.
SequenceEncodingWitness ==
    \E t \in Threads :
        /\ th[t].op = "encode"
        /\ th[t].pc = "done"
        /\ pipes[th[t].h].tag = "Sequence"
        /\ Len(pipes[th[t].h].cells) = 2
        /\ cells[pipes[th[t].h].cells[1]] = RbStrip(FALSE, FALSE)
        /\ th[t].out.kind = "Ok"
        /\ th[t].out.val.m["normalizers"].a[1] =
              Obj([type |-> "Strip", strip_left |-> FALSE, strip_right |-> FALSE])

----------------------------------------------------------------------------
(* C23: uniform execution.  Executing Sequence.new([A]) of a leaf pipeline  *)
(* A on a text ends like executing A on it, result or error; and executing  *)
(* Sequence.new([P, Q]) leaves the same buffer as executing P and then, if  *)
(* P succeeded, Q on the buffer P left.                                     *)
UniformExecution ==
    \A t1, t2 \in Threads :
        LET f == th[t1]
            g == th[t2]
            from == pipes[g.h].from
        IN  (/\ f.pc = "done" /\ f.op = "exec"
             /\ g.pc = "done" /\ g.op = "exec" /\ g.arg = <<>>
             /\ f.buf.input = g.buf.input
             /\ pipes[g.h].tag = "Sequence") =>
                /\ (/\ Len(from) = 1
                    /\ f.arg = <<>>
                    /\ f.h = from[1]
                    /\ pipes[f.h].tag = "Single") =>
                        f.out = g.out /\ f.buf = g.buf
                /\ (/\ Len(from) = 2
                    /\ f.arg = <<from[1]>>
                    /\ f.h = from[2]) =>
                        f.buf = g.buf /\ f.out.kind = g.out.kind
                /\ (/\ Len(from) = 2
                    /\ f.arg = <<>>
                    /\ f.h = from[1]
                    /\ f.out.kind = "Err") =>
                        f.buf = g.buf /\ g.out.kind = "Err"

\* One caller has run P and then Q on the buffer P left, the other
\* Sequence.new([P, Q]) with P itself a Sequence, each on the same text and
\* through both stages of P.
UniformWitness ==
    /\ th[1].pc = "done" /\ th[1].op = "exec"
    /\ th[2].pc = "done" /\ th[2].op = "exec" /\ th[2].arg = <<>>
    /\ pipes[th[2].h].from = <<4, 2>>
    /\ th[1].arg = <<4>> /\ th[1].h = 2
    /\ Len(th[2].buf.applied) = 3
    /\ th[1].buf = th[2].buf

----------------------------------------------------------------------------
(* C24: stage-level atomicity.  While a call runs a stage under its read    *)
(* view, no step changes the configuration of that cell: a setter that has  *)
(* started waits, and the stage the call applies is the one the cell held   *)
(* for the whole call, whole before or whole after any setter.              *)
StageAtomicity ==
    [][\A t \in Threads :
          (th[t].pc = "locked" /\ th[t].op = "exec") =>
              LET c == th[t].held[Len(th[t].held)][1]
              IN  /\ cells'[c] = cells[c]
                  /\ (th'[t] # th[t] /\ th'[t].out.kind # "Err") =>
                        /\ th'[t].buf.applied = Append(th[t].buf.applied, cells[c])
                        /\ th'[t].buf.applied[Len(th'[t].buf.applied)] = cells'[c]
                  /\ \A u \in Threads \ {t} :
                        (th[u].op = "set" /\ th[u].pc = "acquire" /\ CurCell(u) = c) =>
                            th'[u].pc = "acquire"]_vars

\* A setter on a cell has started and waits while another call runs the
\* stage of that cell under its read view.
StageAtomicityWitness ==
    \E t, u \in Threads :
        /\ th[t].pc = "locked" /\ th[t].op = "exec"
        /\ th[u].pc = "acquire" /\ th[u].op = "set"
        /\ CurCell(u) = th[t].held[Len(th[t].held)][1]
        /\ cells[CurCell(u)].kind = th[u].arg[1].variant
        /\ cells[CurCell(u)].f[th[u].arg[1].field] # th[u].arg[2]

----------------------------------------------------------------------------
(* C25: accessors off target.  A setter on a Sequence handle, or on a       *)
(* Single whose cell holds another variant than the setter's, returns       *)
(* normally and no step of it changes any cell; on a Sequence it takes no   *)
(* lock.  A getter in the same situation ends in unreachable, not a value.  *)
OffTargetAccessors ==
    /\ [](\A t \in Threads :
            (th[t].op \in {"set", "get"} /\ pipes[th[t].h].tag = "Sequence") =>
                /\ th[t].pc = "done"
                /\ th[t].held = <<>>
                /\ \A c \in CellIds : rw[c] = Unlocked
                /\ th[t].out = IF th[t].op = "set" THEN Ok("unit")
                               ELSE Panic("unreachable"))
    /\ [](\A t \in Threads :
            (/\ th[t].op \in {"set", "get"}
             /\ th[t].pc = "done"
             /\ pipes[th[t].h].tag = "Single"
             /\ cells[pipes[th[t].h].cells[1]].kind # th[t].arg[1].variant) =>
                th[t].out = IF th[t].op = "set" THEN Ok("unit")
                            ELSE Panic("unreachable"))
    /\ [][\A t \in Threads :
            (/\ th[t].op = "set"
             /\ \/ pipes[th[t].h].tag = "Sequence"
                \/ cells[pipes[th[t].h].cells[1]].kind # th[t].arg[1].variant) =>
                cells' = cells]_vars

\* A setter of Strip has run under the write view of a cell that holds
\* another variant and has returned.
OffTargetWitness ==
    \E t \in Threads :
        /\ th[t].op = "set"
        /\ th[t].pc = "done"
        /\ th[t].arg[1].variant = "StripNormalizer"
        /\ pipes[th[t].h].tag = "Single"
        /\ cells[pipes[th[t].h].cells[1]] = RbLowercase
        /\ th[t].out = Ok("unit")
        /\ \E h \in Handles : pipes[h].tag = "Sequence"

----------------------------------------------------------------------------
(* C26: frame of the operations.  No step of an execute (successful or      *)
(* failing), a getter, a describe or an encode changes any cell, and these  *)
(* operations hold read views only.  A step that changes the cells is the   *)
(* write of a setter under its write view, and it changes one field of one  *)
(* cell: the other cells, the variant and the other fields stay.            *)
FrameEffect ==
    [][/\ DOMAIN cells' = DOMAIN cells
       /\ \A t \in Threads :
            (th[t].op \in ReadOps /\ th'[t] # th[t]) =>
                /\ cells' = cells
                /\ \A j \in 1..Len(th'[t].held) : th'[t].held[j][2] = "r"
       /\ cells' # cells =>
            \E t \in Threads :
                /\ th[t].op = "set"
                /\ th[t].pc = "locked"
                /\ th'[t].pc = "done"
                /\ \A u \in Threads \ {t} : th'[u] = th[u]
                /\ LET c == th[t].held[Len(th[t].held)][1]
                   IN  /\ th[t].held[Len(th[t].held)][2] = "w"
                       /\ \A d \in CellIds \ {c} : cells'[d] = cells[d]
                       /\ cells'[c].kind = cells[c].kind
                       /\ DOMAIN cells'[c].f = DOMAIN cells[c].f
                       /\ Cardinality({k \in DOMAIN cells[c].f :
                                         cells'[c].f[k] # cells[c].f[k]}) = 1
                       /\ cells'[c].f[th[t].arg[1].field] = th[t].arg[2]]_vars

\* A setter has changed a cell, and next to it an execute has failed on its
\* pipeline.
FrameEffectWitness ==
    \E t, u \in Threads :
        /\ th[t].op = "set" /\ th[t].pc = "done" /\ th[t].out = Ok("unit")
        /\ cells[pipes[th[t].h].cells[1]].kind = th[t].arg[1].variant
        /\ cells[pipes[th[t].h].cells[1]].f[th[t].arg[1].field] = th[t].arg[2]
        /\ cells[1] # RbStrip(TRUE, FALSE)
        /\ th[u].op = "exec" /\ th[u].pc = "done" /\ th[u].out.kind = "Err"

----------------------------------------------------------------------------
(* C27: the variant is fixed at construction.  No step (a constructor, a    *)
(* composition, an execute, a setter, a getter, a describe, an encode)      *)
(* changes the variant an existing cell holds or the Single/Sequence tag of *)
(* an existing handle, so the descriptor of a handle is the same before and *)
(* after every step, and a describe that has returned carries it.           *)
VariantFixed ==
    /\ [][/\ \A c \in CellIds :
                c \in DOMAIN cells' /\ cells'[c].kind = cells[c].kind
          /\ \A h \in Handles :
                /\ h \in DOMAIN pipes'
                /\ pipes'[h].tag = pipes[h].tag
                /\ pipes'[h].fam = pipes[h].fam
                /\ Descriptor(h)' = Descriptor(h)]_vars
    /\ [](\A t \in Threads :
            (th[t].op = "describe" /\ th[t].pc = "done") =>
                th[t].out = Descriptor(th[t].h))

\* A describe has returned on a Single whose cell a setter has changed since
\* its construction and which a Sequence shares.
VariantFixedWitness ==
    \E t \in Threads :
        /\ th[t].op = "describe"
        /\ th[t].pc = "done"
        /\ pipes[th[t].h].tag = "Single"
        /\ cells[pipes[th[t].h].cells[1]] \notin CtorArgs
        /\ th[t].out = Ok(ClassName(cells[pipes[th[t].h].cells[1]].kind))
        /\ \E q \in Handles :
              /\ pipes[q].tag = "Sequence"
              /\ \E j \in 1..Len(pipes[q].cells) :
                    pipes[q].cells[j] = pipes[th[t].h].cells[1]

====
